---- MODULE Spec2Model ----
(***************************************************************************)
(* TemplateClimate (custom_components/template_climate/climate.py): a      *)
(* climate entity whose reads come from a state template, from its script  *)
(* mappings or from a "base" climate entity looked up by id, and whose     *)
(* write actions run a configured script and then forward the action to    *)
(* the base entity.                                                        *)
(*                                                                         *)
(* Conventions.  A Python Optional[T] is a set with at most one element:   *)
(* None is {} and a value x is {x}; truthiness of an Optional object is    *)
(* non-emptiness.  A dict is a function from its keys; a list of mode      *)
(* names is the set of its elements; a bit-set of feature flags is the set *)
(* of flag names and | is set union.                                       *)
(***************************************************************************)
EXTENDS Integers, Sequences, FiniteSets, TLC

VARIABLES
    config,                            \* the validated configuration of the entity
    lifecycle,                         \* "new", "constructed", "ctor_failed", "added", "add_failed"
    _base_climate_entity_id,           \* self._base_climate_entity_id
    _state_template,                   \* self._state_template
    _state,                            \* self._state
    _service_scripts,                  \* self._service_scripts
    _hvac_mode_scripts,                \* self._hvac_mode_scripts
    _preset_mode_scripts,              \* self._preset_mode_scripts
    _fan_mode_scripts,                 \* self._fan_mode_scripts
    _swing_mode_scripts,               \* self._swing_mode_scripts
    _swing_horizontal_mode_scripts,    \* self._swing_horizontal_mode_scripts
    _context,                          \* self._context, set by the host for each service call
    registry,                          \* hass.data[CLIMATE_DOMAIN]: the climate entities that exist
    pc,                                \* position of the write action in flight
    call,                              \* the write action in flight: method and arguments
    log,                               \* what the action in flight has invoked, in order
    resolvedAtStart,                   \* whether the base entity was resolvable when the action began
    resolvedAtLookup,                  \* whether it was resolvable when the action reached its base-entity test
    errors,                            \* exceptions that left the last operation
    fresh,                             \* the property read by the last step ("none" otherwise)
    stateRead,                         \* result of the last read of state
    hvacRead,                          \* result of the last read of hvac_modes
    presetRead,                        \* result of the last read of preset_modes
    featRead,                          \* result of the last read of supported_features
    featQueries,                       \* how the last supported_features query relates to the one before
    lastResult                         \* the result last handed to _update_state

entityVars == <<_base_climate_entity_id, _state_template, _service_scripts,
                _hvac_mode_scripts, _preset_mode_scripts, _fan_mode_scripts,
                _swing_mode_scripts, _swing_horizontal_mode_scripts>>
taskVars == <<pc, call, log, resolvedAtStart, resolvedAtLookup, _context>>
readVars == <<fresh, stateRead, hvacRead, presetRead, featRead, featQueries>>
vars == <<config, lifecycle, entityVars, _state, registry, taskVars, errors,
          readVars, lastResult>>

(***************************************************************************)
(* Bounds of the model.                                                    *)
(***************************************************************************)
\* the configuration registers at most this many scripts over its six mappings
MaxScripts == 2
\* temperatures and humidities passed to the write actions are 1..MaxValue
MaxValue == 2
\* the largest integer a state template renders to
MaxInt == 10

None == {}
Some(x) == {x}
\* the value held by a non-None Optional
The(opt) == CHOOSE x \in opt : TRUE
\* bool(obj) of an Optional object whose class defines neither __bool__ nor __len__
Truthy(opt) == opt # None

(***************************************************************************)
(* Configuration keys (const.py, imported at lines 30-46).                 *)
(***************************************************************************)
CONF_TURN_ON_SCRIPT == "turn_on"
CONF_TURN_OFF_SCRIPT == "turn_off"
CONF_SET_TEMPERATURE_SCRIPT == "set_temperature"
CONF_SET_HUMIDITY_SCRIPT == "set_humidity"
CONF_TOGGLE_SCRIPT == "toggle"
CONF_SERVICE_SCRIPTS == "service_scripts"
CONF_HVAC_MODE_SCRIPTS == "hvac_mode_scripts"
CONF_PRESET_MODE_SCRIPTS == "preset_mode_scripts"
CONF_FAN_MODE_SCRIPTS == "fan_mode_scripts"
CONF_SWING_MODE_SCRIPTS == "swing_mode_scripts"
CONF_SWING_HORIZONTAL_MODE_SCRIPTS == "swing_horizontal_mode_scripts"

ServiceKeys == {CONF_TURN_ON_SCRIPT, CONF_TURN_OFF_SCRIPT, CONF_SET_TEMPERATURE_SCRIPT,
                CONF_SET_HUMIDITY_SCRIPT, CONF_TOGGLE_SCRIPT}
\* mode names a configuration may bind and a caller may request
ModeNames == {"auto", "off"}
\* the entity id a configuration may name as its base climate entity
BaseId == "climate.base"
\* the template text a configuration may give as its state template
StateTemplateText == "{{ states('sensor.mode') }}"
\* execution contexts the host may attach to a service call
Contexts == {"ctx1", "ctx2"}

(***************************************************************************)
(* CLIMATE_SCHEMA: state and base_climate_entity_id are optional (absent   *)
(* keys read as None through config.get), the six script mappings default  *)
(* to {}.  Only the keys of a mapping are kept: a script body is opaque.   *)
(***************************************************************************)
ScriptCount(c) == Cardinality(c.service_scripts) + Cardinality(c.hvac_mode_scripts)
                  + Cardinality(c.preset_mode_scripts) + Cardinality(c.fan_mode_scripts)
                  + Cardinality(c.swing_mode_scripts)
                  + Cardinality(c.swing_horizontal_mode_scripts)

CLIMATE_SCHEMA ==
    { c \in [ state : {None, Some(StateTemplateText)},
              base_climate_entity_id : {None, Some(BaseId)},
              service_scripts : SUBSET ServiceKeys,
              hvac_mode_scripts : SUBSET ModeNames,
              preset_mode_scripts : SUBSET ModeNames,
              fan_mode_scripts : SUBSET ModeNames,
              swing_mode_scripts : SUBSET ModeNames,
              swing_horizontal_mode_scripts : SUBSET ModeNames ] :
        ScriptCount(c) <= MaxScripts }

(***************************************************************************)
(* ClimateEntityFeature: the flags the code names, and one more flag       *)
(* (TARGET_TEMPERATURE_RANGE) that only a base entity can contribute.      *)
(***************************************************************************)
TURN_ON == "TURN_ON"
TURN_OFF == "TURN_OFF"
TARGET_TEMPERATURE == "TARGET_TEMPERATURE"
TARGET_HUMIDITY == "TARGET_HUMIDITY"
FAN_MODE == "FAN_MODE"
PRESET_MODE == "PRESET_MODE"
SWING_MODE == "SWING_MODE"
SWING_HORIZONTAL_MODE == "SWING_HORIZONTAL_MODE"
TARGET_TEMPERATURE_RANGE == "TARGET_TEMPERATURE_RANGE"
ClimateEntityFeature == {TURN_ON, TURN_OFF, TARGET_TEMPERATURE, TARGET_HUMIDITY, FAN_MODE,
                         PRESET_MODE, SWING_MODE, SWING_HORIZONTAL_MODE,
                         TARGET_TEMPERATURE_RANGE}

(***************************************************************************)
(* The climate entities other than this one: the registry holds at most    *)
(* the entity BaseId names, with whatever that entity currently reports.   *)
(***************************************************************************)
\* it advertises no flag, any one flag, or all of them
BaseFeatureSets == {{}} \cup { {f} : f \in ClimateEntityFeature } \cup {ClimateEntityFeature}
BaseStates == {Some("heat"), Some("off")}
BaseHvacModes == {{"heat"}, {"heat", "cool"}}
BasePresetModes == {None, Some({"eco"})}
DefaultBase == [entity_id |-> BaseId, supported_features |-> {}, state |-> Some("heat"),
                hvac_modes |-> {"heat"}, preset_modes |-> None]

\* EntityComponent.get_entity(entity_id): the entity registered under the id, or None
get_entity(entity_id) == { e \in registry : e.entity_id = entity_id }

(***************************************************************************)
(* Construction (TemplateClimate.__init__).                                *)
(***************************************************************************)
\* Script(hass, sequence, name, CLIMATE_DOMAIN): the script bound to one key of one mapping
Script(mapping, key) == [mapping |-> mapping, key |-> key]

\* the dict comprehensions of __init__: one Script per configured key
ScriptDict(mapping, keys) == [k \in keys |-> Script(mapping, k)]

\* Template(template, hass).  The class is the host's: for a template that is
\* not a string (None, when the configuration gives no state) the constructor
\* either rejects it with a TypeError or yields a Template object; for a string
\* it yields a Template object.  The object defines neither __bool__ nor __len__.
TemplateOutcomes(text) == IF text = None THEN {"TypeError", "object"} ELSE {"object"}

\* the Template object: the text it was built from
Template(text) == [template |-> text]

InitFailsWith(exc) ==
    /\ lifecycle' = "ctor_failed"
    /\ errors' = {exc}
    /\ UNCHANGED <<entityVars, _state>>

InitSucceeds ==
    /\ lifecycle' = "constructed"
    /\ errors' = {}
    /\ _base_climate_entity_id' = config.base_climate_entity_id
    /\ _state_template' = Some(Template(config.state))
    /\ _state' = None
    /\ _service_scripts' = ScriptDict(CONF_SERVICE_SCRIPTS, config.service_scripts)
    /\ _hvac_mode_scripts' = ScriptDict(CONF_HVAC_MODE_SCRIPTS, config.hvac_mode_scripts)
    /\ _preset_mode_scripts' = ScriptDict(CONF_PRESET_MODE_SCRIPTS, config.preset_mode_scripts)
    /\ _fan_mode_scripts' = ScriptDict(CONF_FAN_MODE_SCRIPTS, config.fan_mode_scripts)
    /\ _swing_mode_scripts' = ScriptDict(CONF_SWING_MODE_SCRIPTS, config.swing_mode_scripts)
    /\ _swing_horizontal_mode_scripts' =
           ScriptDict(CONF_SWING_HORIZONTAL_MODE_SCRIPTS, config.swing_horizontal_mode_scripts)

\* TemplateClimate(hass, climate_config, climate_name)
__init__ ==
    /\ lifecycle = "new"
    /\ \E outcome \in TemplateOutcomes(config.state) :
          IF outcome = "object" THEN InitSucceeds ELSE InitFailsWith(outcome)
    /\ UNCHANGED <<config, registry, taskVars, readVars, lastResult>>

\* the entity object exists: its properties can be read and its methods called
Constructed == lifecycle \in {"constructed", "added", "add_failed"}

(***************************************************************************)
(* add_template_attribute and async_added_to_hass: the state template is   *)
(* wrapped as  "{% set attribute = '_state' %}" + template.template  and   *)
(* registered with _update_state as its on_update callback.  For a         *)
(* Template built from None the concatenation str + None is a TypeError    *)
(* and nothing is registered.                                              *)
(***************************************************************************)
add_template_attribute(template) ==
    IF template.template = None THEN {"TypeError"} ELSE {}

async_added_to_hass ==
    /\ lifecycle = "constructed"
    /\ pc \in {"idle", "done", "raised"}
    /\ errors' = add_template_attribute(The(_state_template))
    /\ lifecycle' = IF errors' = {} THEN "added" ELSE "add_failed"
    /\ fresh' = "none" /\ stateRead' = None /\ hvacRead' = {} /\ presetRead' = None
    /\ UNCHANGED <<config, entityVars, _state, registry, taskVars, featRead, featQueries,
                   lastResult>>

(***************************************************************************)
(* _base_climate_entity: looked up by id in the registry on every access.  *)
(***************************************************************************)
_base_climate_entity ==
    IF Truthy(_base_climate_entity_id)
        THEN get_entity(The(_base_climate_entity_id))
        ELSE None

(***************************************************************************)
(* _update_state(result): the tracker hands over the rendered value or the *)
(* TemplateError the render raised.                                        *)
(***************************************************************************)
TemplateError == [kind |-> "TemplateError", s |-> "", n |-> 0]
StrResult(s) == [kind |-> "str", s |-> s, n |-> 0]
IntResult(n) == [kind |-> "int", s |-> "", n |-> n]
\* an object whose __str__ raises ValueError
Unprintable == [kind |-> "unprintable", s |-> "", n |-> 0]
NoResult == [kind |-> "none", s |-> "", n |-> 0]

RenderResults == {TemplateError, Unprintable, StrResult("heat"), StrResult("off")}
                 \cup { IntResult(n) : n \in {0} \cup (MaxInt - 1)..MaxInt }

DigitChars == <<"0", "1", "2", "3", "4", "5", "6", "7", "8", "9">>

RECURSIVE IntToStr(_)
IntToStr(n) == IF n < 10 THEN DigitChars[n + 1]
               ELSE IntToStr(n \div 10) \o DigitChars[(n % 10) + 1]

\* str(result): None where it raises ValueError, the string otherwise
str(result) ==
    CASE result.kind = "str" -> Some(result.s)
      [] result.kind = "int" -> Some(IntToStr(result.n))
      [] OTHER -> None

\* a failed render that leaves the stored state as it was
OnTemplateErrorKeep == _state

\* the isinstance(result, TemplateError) branch of _update_state
OnTemplateError == None

_update_state(result) ==
    /\ lifecycle = "added"
    /\ lastResult' = result
    /\ _state' = IF result.kind = "TemplateError"
                     THEN OnTemplateError
                     ELSE IF str(result) # None THEN str(result) ELSE None
    /\ errors' = {}
    /\ fresh' = "none" /\ stateRead' = None /\ hvacRead' = {} /\ presetRead' = None
    /\ UNCHANGED <<config, lifecycle, entityVars, registry, taskVars, featRead, featQueries>>

(***************************************************************************)
(* The read properties.                                                    *)
(***************************************************************************)
\* support = flag where the code has support |= flag
AssignIf(support, cond, flag) == IF cond THEN {flag} ELSE support

\* support |= flag, under the condition the code tests
OrIf(support, cond, flag) == IF cond THEN support \cup {flag} ELSE support

\* the base entity's features as of the first query, kept for later queries
BaseSupportCached ==
    IF featQueries # "none"
        THEN featRead
        ELSE IF Truthy(_base_climate_entity)
                 THEN The(_base_climate_entity).supported_features
                 ELSE {}

\* the features the base entity contributes to supported_features
BaseSupport ==
    IF Truthy(_base_climate_entity)
        THEN The(_base_climate_entity).supported_features
        ELSE {}

supported_features ==
    LET s0 == {} \cup BaseSupport
        s1 == OrIf(s0, CONF_TURN_ON_SCRIPT \in DOMAIN _service_scripts, TURN_ON)
        s2 == OrIf(s1, CONF_TURN_OFF_SCRIPT \in DOMAIN _service_scripts, TURN_OFF)
        s3 == OrIf(s2, CONF_SET_TEMPERATURE_SCRIPT \in DOMAIN _service_scripts,
                   TARGET_TEMPERATURE)
        s4 == OrIf(s3, CONF_SET_HUMIDITY_SCRIPT \in DOMAIN _service_scripts, TARGET_HUMIDITY)
        s5 == OrIf(s4, DOMAIN _fan_mode_scripts # {}, FAN_MODE)
        s6 == OrIf(s5, DOMAIN _preset_mode_scripts # {}, PRESET_MODE)
        s7 == OrIf(s6, DOMAIN _swing_mode_scripts # {}, SWING_MODE)
        s8 == OrIf(s7, DOMAIN _swing_horizontal_mode_scripts # {}, SWING_HORIZONTAL_MODE)
    IN  s8

state ==
    IF Truthy(_state_template)
        THEN _state
        ELSE IF Truthy(_base_climate_entity)
                 THEN The(_base_climate_entity).state
                 ELSE None

\* a list of mode names; [] is {}
hvac_modes ==
    IF DOMAIN _hvac_mode_scripts # {}
        THEN DOMAIN _hvac_mode_scripts
        ELSE IF Truthy(_base_climate_entity)
                 THEN The(_base_climate_entity).hvac_modes
                 ELSE {}

\* a resolution that asks the base entity before the local mapping
preset_modes_base_first ==
    IF Truthy(_base_climate_entity)
        THEN The(_base_climate_entity).preset_modes
        ELSE IF DOMAIN _preset_mode_scripts # {}
                 THEN Some(DOMAIN _preset_mode_scripts)
                 ELSE None

\* an Optional list of mode names
preset_modes ==
    IF DOMAIN _preset_mode_scripts # {}
        THEN Some(DOMAIN _preset_mode_scripts)
        ELSE IF Truthy(_base_climate_entity)
                 THEN The(_base_climate_entity).preset_modes
                 ELSE None

(***************************************************************************)
(* A read of one property by the host: the result is recorded until the    *)
(* next step.                                                              *)
(***************************************************************************)
UnchangedByRead == UNCHANGED <<config, lifecycle, entityVars, _state, registry, taskVars,
                               errors, lastResult>>

ReadState ==
    /\ Constructed
    /\ fresh' = "state" /\ stateRead' = state
    /\ hvacRead' = {} /\ presetRead' = None
    /\ UNCHANGED <<featRead, featQueries>>
    /\ UnchangedByRead

ReadHvacModes ==
    /\ Constructed
    /\ fresh' = "hvac_modes" /\ hvacRead' = hvac_modes
    /\ stateRead' = None /\ presetRead' = None
    /\ UNCHANGED <<featRead, featQueries>>
    /\ UnchangedByRead

ReadPresetModes ==
    /\ Constructed
    /\ fresh' = "preset_modes" /\ presetRead' = preset_modes
    /\ stateRead' = None /\ hvacRead' = {}
    /\ UNCHANGED <<featRead, featQueries>>
    /\ UnchangedByRead

ReadSupportedFeatures ==
    /\ Constructed
    /\ fresh' = "supported_features" /\ featRead' = supported_features
    /\ featQueries' = IF featQueries = "none" THEN "first"
                      ELSE IF featRead' = featRead THEN "same" ELSE "differs"
    /\ UNCHANGED <<stateRead, hvacRead, presetRead>>
    /\ UnchangedByRead

(***************************************************************************)
(* The registry changes under the entity: the base entity is added,        *)
(* removed, or reports something new.  Entities is what it may report.     *)
(***************************************************************************)
UnchangedByRegistry ==
    /\ fresh' = "none" /\ stateRead' = None /\ hvacRead' = {} /\ presetRead' = None
    /\ UNCHANGED <<config, lifecycle, entityVars, _state, taskVars, errors, featRead,
                   featQueries, lastResult>>

EntityAdded(Entities) ==
    /\ registry = {}
    /\ \E e \in Entities : registry' = {e}
    /\ UnchangedByRegistry

EntityRemoved ==
    /\ registry # {}
    /\ registry' = {}
    /\ UnchangedByRegistry

EntityChanged(Entities) ==
    /\ registry # {}
    /\ \E e \in Entities \ registry : registry' = {e}
    /\ UnchangedByRegistry

(***************************************************************************)
(* The write actions.  Each is a coroutine with two suspension points: the *)
(* await of the script's run and the await of the base entity's method.    *)
(* pc is "script" or "base" while the action waits at one of them, "done"  *)
(* when it returned and "raised" when an exception left it.  log lists     *)
(* what the action invoked and what returned to it, in order.              *)
(***************************************************************************)
NoCall == [method |-> "none", args |-> {}]
\* arguments are sets of <<parameter, value>> pairs
Arg(name, value) == {<<name, value>>}
\* async_run called without run variables
NoVariables == {}
Values == 1..MaxValue
\* the keyword arguments the host passes to async_set_temperature
Kwargs == { Arg("temperature", t) : t \in Values }
          \cup { Arg("target_temp_low", 1) \cup Arg("target_temp_high", MaxValue) }

Event(ev, target, method, args, context) ==
    [ev |-> ev, target |-> target, method |-> method, args |-> args, context |-> context]

\* a run that drops the variables it is given
ScriptRunWithoutVariables(script, run_variables, context) ==
    Event("script_run", script.mapping, script.key, NoVariables, Some(context))

\* script.async_run(run_variables, context=self._context) begins
ScriptRun(script, run_variables, context) ==
    Event("script_run", script.mapping, script.key, run_variables, Some(context))
ScriptDone(script) == Event("script_done", script.mapping, script.key, {}, None)
\* base.method(*args) begins
BaseCall(base, c) == Event("base_call", base.entity_id, c.method, c.args, None)
BaseDone(c) == Event("base_done", BaseId, c.method, {}, None)

IsRunning == pc \in {"script", "base"}

\* the base entity is configured and is in the registry (what resolvedAtStart
\* and resolvedAtLookup record)
BaseResolvable == config.base_climate_entity_id # None /\ registry # {}

\* a test on the entity resolved when the action began, held across the await
BaseGuardHeld == resolvedAtStart

\* the test  if self._base_climate_entity:  that guards the forward
BaseGuard == Truthy(_base_climate_entity)

\* a forward written as the alternative to the script (elif), not after it
ForwardUnlessScriptRan(c, sofar) ==
    IF sofar = <<>> /\ BaseGuard
        THEN /\ pc' = "base"
             /\ log' = Append(sofar, BaseCall(The(_base_climate_entity), c))
             /\ errors' = {}
        ELSE /\ pc' = "done"
             /\ log' = sofar
             /\ errors' = {}

\* if self._base_climate_entity: await self._base_climate_entity.<method>(<args>)
\* up to the suspension; a method looked up on None is an AttributeError
ForwardToBase(c, sofar) ==
    IF BaseGuard
        THEN IF _base_climate_entity = None
                 THEN /\ pc' = "raised"
                      /\ log' = sofar
                      /\ errors' = {"AttributeError"}
                 ELSE /\ pc' = "base"
                      /\ log' = Append(sofar, BaseCall(The(_base_climate_entity), c))
                      /\ errors' = {}
        ELSE /\ pc' = "done"
             /\ log' = sofar
             /\ errors' = {}

\* the variables a mode-setting action hands to the script it runs
ModeRunVariables(parameter, mode) == NoVariables

\* the body of a write action up to its first suspension:
\*   if <key> in <scripts>: await <scripts>[<key>].async_run(<run_variables>, context=self._context)
\*   if self._base_climate_entity: await self._base_climate_entity.<method>(<args>)
Dispatch(c, scripts, key, run_variables) ==
    /\ Constructed
    /\ ~IsRunning
    /\ call' = c
    /\ resolvedAtStart' = BaseResolvable
    /\ resolvedAtLookup' = (key \notin DOMAIN scripts /\ BaseResolvable)
    /\ IF key \in DOMAIN scripts
           THEN /\ pc' = "script"
                /\ log' = <<ScriptRun(scripts[key], run_variables, _context')>>
                /\ errors' = {}
           ELSE ForwardToBase(c, <<>>)
    /\ UNCHANGED <<config, lifecycle, entityVars, _state, registry, readVars, lastResult>>

async_set_temperature(kwargs) ==
    Dispatch([method |-> "async_set_temperature", args |-> kwargs],
             _service_scripts, CONF_SET_TEMPERATURE_SCRIPT, kwargs)

async_set_humidity(humidity) ==
    Dispatch([method |-> "async_set_humidity", args |-> Arg("humidity", humidity)],
             _service_scripts, CONF_SET_HUMIDITY_SCRIPT, Arg("humidity", humidity))

async_set_fan_mode(fan_mode) ==
    Dispatch([method |-> "async_set_fan_mode", args |-> Arg("fan_mode", fan_mode)],
             _fan_mode_scripts, fan_mode, ModeRunVariables("fan_mode", fan_mode))

async_set_hvac_mode(hvac_mode) ==
    Dispatch([method |-> "async_set_hvac_mode", args |-> Arg("hvac_mode", hvac_mode)],
             _hvac_mode_scripts, hvac_mode, ModeRunVariables("hvac_mode", hvac_mode))

async_set_swing_mode(swing_mode) ==
    Dispatch([method |-> "async_set_swing_mode", args |-> Arg("swing_mode", swing_mode)],
             _swing_mode_scripts, swing_mode, ModeRunVariables("swing_mode", swing_mode))

async_set_swing_horizontal_mode(swing_horizontal_mode) ==
    Dispatch([method |-> "async_set_swing_horizontal_mode",
              args |-> Arg("swing_horizontal_mode", swing_horizontal_mode)],
             _swing_horizontal_mode_scripts, swing_horizontal_mode,
             ModeRunVariables("swing_horizontal_mode", swing_horizontal_mode))

async_set_preset_mode(preset_mode) ==
    Dispatch([method |-> "async_set_preset_mode", args |-> Arg("preset_mode", preset_mode)],
             _preset_mode_scripts, preset_mode, ModeRunVariables("preset_mode", preset_mode))

async_turn_on ==
    Dispatch([method |-> "async_turn_on", args |-> {}],
             _service_scripts, CONF_TURN_ON_SCRIPT, NoVariables)

async_turn_off ==
    Dispatch([method |-> "async_turn_off", args |-> {}],
             _service_scripts, CONF_TURN_OFF_SCRIPT, NoVariables)

\* a toggle that falls back on the turn-on script
ToggleKeyTurnOn == CONF_TURN_ON_SCRIPT

\* the service key async_toggle looks its script up under
ToggleKey == CONF_TOGGLE_SCRIPT

async_toggle ==
    Dispatch([method |-> "async_toggle", args |-> {}],
             _service_scripts, ToggleKey, NoVariables)

\* the host dispatches a service call to an entity it has added: it sets the
\* entity's context for the call, then calls the method
ServiceCall(context, Method) ==
    /\ lifecycle = "added"
    /\ _context' = context
    /\ Method

\* the script in flight: the one the last event of the log started
RunningScript == Script(log[Len(log)].target, log[Len(log)].method)

\* the awaited script run returns; the action goes on to its base-entity test
ScriptReturns ==
    /\ pc = "script"
    /\ resolvedAtLookup' = BaseResolvable
    /\ ForwardToBase(call, Append(log, ScriptDone(RunningScript)))
    /\ UNCHANGED <<config, lifecycle, entityVars, _state, registry, call, resolvedAtStart,
                   _context, readVars, lastResult>>

\* the awaited script run raises; nothing in the action catches it
ScriptRaises ==
    /\ pc = "script"
    /\ pc' = "raised"
    /\ errors' = {"HomeAssistantError"}
    /\ UNCHANGED <<config, lifecycle, entityVars, _state, registry, call, log,
                   resolvedAtStart, resolvedAtLookup, _context, readVars, lastResult>>

\* the awaited base-entity method returns; the action returns
BaseReturns ==
    /\ pc = "base"
    /\ pc' = "done"
    /\ log' = Append(log, BaseDone(call))
    /\ UNCHANGED <<config, lifecycle, entityVars, _state, registry, call, resolvedAtStart,
                   resolvedAtLookup, _context, errors, readVars, lastResult>>

\* the awaited base-entity method raises; nothing in the action catches it
BaseRaises ==
    /\ pc = "base"
    /\ pc' = "raised"
    /\ errors' = {"HomeAssistantError"}
    /\ UNCHANGED <<config, lifecycle, entityVars, _state, registry, call, log,
                   resolvedAtStart, resolvedAtLookup, _context, readVars, lastResult>>

(***************************************************************************)
(* Specifications.  Every one starts before construction, with a           *)
(* configuration the schema admits and the base entity present or not.     *)
(***************************************************************************)
InitWith(Configs, Entities) ==
    /\ config \in Configs
    /\ lifecycle = "new"
    /\ _base_climate_entity_id = None
    /\ _state_template = None
    /\ _state = None
    /\ _service_scripts = ScriptDict(CONF_SERVICE_SCRIPTS, {})
    /\ _hvac_mode_scripts = ScriptDict(CONF_HVAC_MODE_SCRIPTS, {})
    /\ _preset_mode_scripts = ScriptDict(CONF_PRESET_MODE_SCRIPTS, {})
    /\ _fan_mode_scripts = ScriptDict(CONF_FAN_MODE_SCRIPTS, {})
    /\ _swing_mode_scripts = ScriptDict(CONF_SWING_MODE_SCRIPTS, {})
    /\ _swing_horizontal_mode_scripts = ScriptDict(CONF_SWING_HORIZONTAL_MODE_SCRIPTS, {})
    /\ _context = "ctx1"
    /\ registry \in {{}} \cup { {e} : e \in Entities }
    /\ pc = "idle"
    /\ call = NoCall
    /\ log = <<>>
    /\ resolvedAtStart = FALSE
    /\ resolvedAtLookup = FALSE
    /\ errors = {}
    /\ fresh = "none"
    /\ stateRead = None
    /\ hvacRead = {}
    /\ presetRead = None
    /\ featRead = {}
    /\ featQueries = "none"
    /\ lastResult = NoResult

(* The write path: the ten write actions under a registry that changes. *)
WriteEntities == {DefaultBase}
Init == InitWith(CLIMATE_SCHEMA, WriteEntities)

\* each service call carries a context of its own
NewContexts == Contexts \ {_context}

Next ==
    \/ __init__
    \/ async_added_to_hass
    \/ \E context \in NewContexts, kwargs \in Kwargs :
          ServiceCall(context, async_set_temperature(kwargs))
    \/ \E context \in NewContexts, humidity \in Values :
          ServiceCall(context, async_set_humidity(humidity))
    \/ \E context \in NewContexts, mode \in ModeNames :
          ServiceCall(context, async_set_fan_mode(mode))
    \/ \E context \in NewContexts, mode \in ModeNames :
          ServiceCall(context, async_set_hvac_mode(mode))
    \/ \E context \in NewContexts, mode \in ModeNames :
          ServiceCall(context, async_set_swing_mode(mode))
    \/ \E context \in NewContexts, mode \in ModeNames :
          ServiceCall(context, async_set_swing_horizontal_mode(mode))
    \/ \E context \in NewContexts, mode \in ModeNames :
          ServiceCall(context, async_set_preset_mode(mode))
    \/ \E context \in NewContexts : ServiceCall(context, async_turn_on)
    \/ \E context \in NewContexts : ServiceCall(context, async_turn_off)
    \/ \E context \in NewContexts : ServiceCall(context, async_toggle)
    \/ ScriptReturns
    \/ ScriptRaises
    \/ BaseReturns
    \/ BaseRaises
    \/ EntityAdded(WriteEntities)
    \/ EntityRemoved

Spec == Init /\ [][Next]_vars

(* The feature query: supported_features under a base entity whose
   advertised features change. *)
FeatureEntities == { [DefaultBase EXCEPT !.supported_features = S] : S \in BaseFeatureSets }
InitFeatures == InitWith(CLIMATE_SCHEMA, FeatureEntities)

NextFeatures ==
    \/ __init__
    \/ ReadSupportedFeatures
    \/ EntityAdded(FeatureEntities)
    \/ EntityRemoved
    \/ EntityChanged(FeatureEntities)

SpecFeatures == InitFeatures /\ [][NextFeatures]_vars

(* The read path: state, hvac_modes and preset_modes under template
   updates and a base entity whose state and mode lists change. *)
ReadEntities ==
    { [DefaultBase EXCEPT !.state = s, !.hvac_modes = h, !.preset_modes = p] :
        s \in BaseStates, h \in BaseHvacModes, p \in BasePresetModes }
InitRead == InitWith(CLIMATE_SCHEMA, ReadEntities)

NextRead ==
    \/ __init__
    \/ async_added_to_hass
    \/ \E result \in RenderResults : _update_state(result)
    \/ ReadState
    \/ ReadHvacModes
    \/ ReadPresetModes
    \/ EntityAdded(ReadEntities)
    \/ EntityRemoved
    \/ EntityChanged(ReadEntities)

SpecRead == InitRead /\ [][NextRead]_vars

(***************************************************************************)
(* Properties of the write path (Spec).                                    *)
(***************************************************************************)
\* the value of the single argument of a call
ArgValue(c) == (CHOOSE p \in c.args : TRUE)[2]

\* the configuration binds a script to what the call asks for
Registered(c) ==
    CASE c.method = "async_set_temperature" ->
             CONF_SET_TEMPERATURE_SCRIPT \in config.service_scripts
      [] c.method = "async_set_humidity" -> CONF_SET_HUMIDITY_SCRIPT \in config.service_scripts
      [] c.method = "async_turn_on" -> CONF_TURN_ON_SCRIPT \in config.service_scripts
      [] c.method = "async_turn_off" -> CONF_TURN_OFF_SCRIPT \in config.service_scripts
      [] c.method = "async_toggle" -> CONF_TOGGLE_SCRIPT \in config.service_scripts
      [] c.method = "async_set_fan_mode" -> ArgValue(c) \in config.fan_mode_scripts
      [] c.method = "async_set_hvac_mode" -> ArgValue(c) \in config.hvac_mode_scripts
      [] c.method = "async_set_swing_mode" -> ArgValue(c) \in config.swing_mode_scripts
      [] c.method = "async_set_swing_horizontal_mode" ->
             ArgValue(c) \in config.swing_horizontal_mode_scripts
      [] c.method = "async_set_preset_mode" -> ArgValue(c) \in config.preset_mode_scripts
      [] OTHER -> FALSE

ModeMethods == {"async_set_fan_mode", "async_set_hvac_mode", "async_set_swing_mode",
                "async_set_swing_horizontal_mode", "async_set_preset_mode"}

Events(kind) == { i \in 1..Len(log) : log[i].ev = kind }
Forwarded == Events("base_call") # {}
ScriptCompleted == Events("script_done") # {}

\* C1: for every write action with a script registered for the requested
\* value (or service): the action runs that script first; the forward to the
\* base entity begins only after the script run has completed, never while it
\* is in flight; and once the script has completed with the base entity
\* resolvable, the same action with the same arguments is forwarded to it, and
\* an action that returns has had both complete, in that order.
C1_ScriptThenBase ==
    (call # NoCall /\ Registered(call)) =>
        /\ Len(log) >= 1 /\ log[1].ev = "script_run"
        /\ pc = "script" => ~Forwarded
        /\ \A i \in Events("base_call") : i = 3 /\ log[2].ev = "script_done"
        /\ (ScriptCompleted /\ resolvedAtLookup) =>
               /\ Len(log) >= 3
               /\ log[3].ev = "base_call"
               /\ log[3].target = BaseId
               /\ log[3].method = call.method
               /\ log[3].args = call.args
        /\ (pc = "done" /\ resolvedAtLookup) =>
               [i \in 1..Len(log) |-> log[i].ev]
                   = <<"script_run", "script_done", "base_call", "base_done">>

\* set-fan-mode("auto") with a fan-mode script for "auto" and a base entity:
\* the script ran, then "auto" was forwarded, and the action returned
C1_Witness ==
    /\ pc = "done"
    /\ call = [method |-> "async_set_fan_mode", args |-> Arg("fan_mode", "auto")]
    /\ "auto" \in config.fan_mode_scripts
    /\ Len(log) = 4
    /\ log[1].ev = "script_run" /\ log[1].target = CONF_FAN_MODE_SCRIPTS
    /\ log[3].ev = "base_call" /\ log[3].args = Arg("fan_mode", "auto")

\* a step that is a toggle call to an entity with neither a toggle script nor
\* a base entity configured (every service call brings a new context)
BareToggleStep ==
    /\ lifecycle = "added"
    /\ ~IsRunning
    /\ _context' # _context
    /\ call'.method = "async_toggle"
    /\ CONF_TOGGLE_SCRIPT \notin config.service_scripts
    /\ config.base_climate_entity_id = None

\* C7: toggle with no toggle script registered and no base entity configured
\* runs no script (not the turn-on or turn-off script either), calls no base
\* entity, changes no state of the entity or the registry, and returns
\* without an error.
C7_BareToggleDoesNothing ==
    [][BareToggleStep =>
          /\ pc' = "done"
          /\ log' = <<>>
          /\ errors' = {}
          /\ UNCHANGED <<config, lifecycle, entityVars, _state, registry>>]_vars

\* such a toggle has returned, on an entity that has a turn-on script
C7_Witness ==
    /\ call.method = "async_toggle"
    /\ pc = "done"
    /\ log = <<>>
    /\ CONF_TOGGLE_SCRIPT \notin config.service_scripts
    /\ CONF_TURN_ON_SCRIPT \in config.service_scripts
    /\ config.base_climate_entity_id = None

\* the context every script run of the log was given is the entity's current one
RunsUseCurrentContext ==
    \A i \in Events("script_run") : log[i].context = Some(_context)

\* C9 as stated: every script run gets the action's arguments and the
\* entity's current context: set_temperature its keyword arguments,
\* set_humidity the humidity, each mode-setting action the requested mode.
C9_Original ==
    /\ RunsUseCurrentContext
    /\ \A i \in Events("script_run") :
          /\ call.method = "async_set_temperature" => log[i].args = call.args
          /\ call.method = "async_set_humidity" =>
                 log[i].args = {<<"humidity", ArgValue(call)>>}
          /\ call.method \in ModeMethods =>
                 \E p \in log[i].args : p[2] = ArgValue(call)

\* C9 amended: every script run gets the entity's current context;
\* set_temperature passes its keyword arguments and set_humidity passes
\* {"humidity": humidity} as run variables; the mode-setting actions (and
\* turn_on, turn_off, toggle) pass no run variables: the requested mode only
\* selects which script of the mapping runs.
C9_ArgumentsPassed ==
    /\ RunsUseCurrentContext
    /\ \A i \in Events("script_run") :
          /\ call.method = "async_set_temperature" =>
                 /\ log[i].args = call.args
                 /\ log[i].target = CONF_SERVICE_SCRIPTS
                 /\ log[i].method = CONF_SET_TEMPERATURE_SCRIPT
          /\ call.method = "async_set_humidity" =>
                 /\ log[i].args = {<<"humidity", ArgValue(call)>>}
                 /\ log[i].target = CONF_SERVICE_SCRIPTS
                 /\ log[i].method = CONF_SET_HUMIDITY_SCRIPT
          /\ call.method \in ModeMethods =>
                 /\ log[i].args = {}
                 /\ log[i].method = ArgValue(call)
          /\ call.method \in {"async_turn_on", "async_turn_off", "async_toggle"} =>
                 log[i].args = {}

\* a humidity script is running with the humidity it was called with
C9_Witness ==
    /\ pc = "script"
    /\ call = [method |-> "async_set_humidity", args |-> Arg("humidity", MaxValue)]
    /\ log[1].args = {<<"humidity", MaxValue>>}
    /\ log[1].context = Some(_context)

\* the action in flight has made its base-entity test
LookupDone ==
    /\ call # NoCall
    /\ pc # "script"
    /\ ~(pc = "raised" /\ Len(log) > 0 /\ log[Len(log)].ev = "script_run")

\* C10: the base entity is looked up anew at each access: an action forwards
\* to the base entity exactly when the base entity is resolvable at the
\* moment the action reaches its base-entity test (at its start when no
\* script runs, at the script's completion otherwise), whatever it was when
\* the action began; no method is ever invoked on an absent base entity; and
\* a configured base entity that is not in the registry gets no call, like no
\* base entity at all.
C10_LookupAtUse ==
    /\ LookupDone => (Forwarded <=> resolvedAtLookup)
    /\ "AttributeError" \notin errors
    /\ \A i \in Events("base_call") : log[i].target = BaseId
    /\ config.base_climate_entity_id = None => ~Forwarded

\* the base entity appeared while the script ran, and the action forwarded to it
C10_Witness ==
    /\ pc = "done"
    /\ Len(log) = 4
    /\ log[1].ev = "script_run"
    /\ ~resolvedAtStart
    /\ resolvedAtLookup
    /\ Forwarded

\* the base entity vanished while the script ran, and the action did not forward
C10_WitnessRemoved ==
    /\ pc = "done"
    /\ ScriptCompleted
    /\ resolvedAtStart
    /\ ~resolvedAtLookup
    /\ ~Forwarded

(***************************************************************************)
(* Properties of the feature query (SpecFeatures).                         *)
(***************************************************************************)
\* what the base entity advertises now (nothing when it is not configured or
\* not in the registry)
BaseAdvertised ==
    IF BaseResolvable THEN UNION { e.supported_features : e \in registry } ELSE {}

\* the configuration has the script group that stands for the flag
GroupConfigured(flag) ==
    CASE flag = TURN_ON -> CONF_TURN_ON_SCRIPT \in config.service_scripts
      [] flag = TURN_OFF -> CONF_TURN_OFF_SCRIPT \in config.service_scripts
      [] flag = TARGET_TEMPERATURE -> CONF_SET_TEMPERATURE_SCRIPT \in config.service_scripts
      [] flag = TARGET_HUMIDITY -> CONF_SET_HUMIDITY_SCRIPT \in config.service_scripts
      [] flag = FAN_MODE -> config.fan_mode_scripts # {}
      [] flag = PRESET_MODE -> config.preset_mode_scripts # {}
      [] flag = SWING_MODE -> config.swing_mode_scripts # {}
      [] flag = SWING_HORIZONTAL_MODE -> config.swing_horizontal_mode_scripts # {}
      [] OTHER -> FALSE

\* C2: a supported_features query returns exactly the flags that the base
\* entity advertises (none when it is not configured or not resolvable) or
\* whose script group is configured: a flag is in the result if and only if
\* it comes from one of the two sources; in particular a turn-on script puts
\* TURN_ON in the result whatever the base entity advertises.
C2_FeaturesAreTheUnion ==
    fresh = "supported_features" =>
        /\ featRead \subseteq ClimateEntityFeature
        /\ \A flag \in ClimateEntityFeature :
              flag \in featRead <=> (flag \in BaseAdvertised \/ GroupConfigured(flag))
        /\ CONF_TURN_ON_SCRIPT \in config.service_scripts => TURN_ON \in featRead

\* a query whose result has TURN_ON from the turn-on script and another flag
\* from the base entity, on an entity with a second script group
C2_Witness ==
    /\ fresh = "supported_features"
    /\ CONF_TURN_ON_SCRIPT \in config.service_scripts
    /\ BaseAdvertised # {}
    /\ TURN_ON \notin BaseAdvertised
    /\ config.fan_mode_scripts # {}
    /\ featRead = BaseAdvertised \cup {TURN_ON, FAN_MODE}

\* the flags the entity's own script mappings stand for
LocalFlags ==
    { flag \in ClimateEntityFeature :
        CASE flag = TURN_ON -> CONF_TURN_ON_SCRIPT \in DOMAIN _service_scripts
          [] flag = TURN_OFF -> CONF_TURN_OFF_SCRIPT \in DOMAIN _service_scripts
          [] flag = TARGET_TEMPERATURE -> CONF_SET_TEMPERATURE_SCRIPT \in DOMAIN _service_scripts
          [] flag = TARGET_HUMIDITY -> CONF_SET_HUMIDITY_SCRIPT \in DOMAIN _service_scripts
          [] flag = FAN_MODE -> DOMAIN _fan_mode_scripts # {}
          [] flag = PRESET_MODE -> DOMAIN _preset_mode_scripts # {}
          [] flag = SWING_MODE -> DOMAIN _swing_mode_scripts # {}
          [] flag = SWING_HORIZONTAL_MODE -> DOMAIN _swing_horizontal_mode_scripts # {}
          [] OTHER -> FALSE }

\* C8: supported_features is recomputed at every query: whatever happened to
\* the base entity's features or to its presence in the registry before, the
\* result of a query is the base entity's features as they are at that query
\* (none when it is not resolvable) together with the local flags, and the
\* local flags never change once the entity is constructed.
C8_RecomputedEveryQuery ==
    [][/\ fresh' = "supported_features" => featRead' = BaseAdvertised' \cup LocalFlags'
       /\ Constructed => LocalFlags' = LocalFlags]_vars

\* a query answered differently from the query before it
C8_Witness ==
    /\ fresh = "supported_features"
    /\ featQueries = "differs"
    /\ featRead = BaseAdvertised \cup LocalFlags

(***************************************************************************)
(* Properties of the read path (SpecRead).                                 *)
(***************************************************************************)
\* the base entity as the registry has it now
TheBase == CHOOSE e \in registry : TRUE

\* C3 as stated: with no state template configured and a base entity
\* configured and resolvable, reading state returns the base entity's
\* current state.
C3_Original ==
    (fresh = "state" /\ config.state = None /\ BaseResolvable) =>
        stateRead = TheBase.state

\* C4: hvac_modes and preset_modes are the key set of the local mapping when
\* it is non-empty, whatever the base entity lists; otherwise the base
\* entity's current list when it is configured and resolvable; otherwise the
\* empty list for hvac_modes and None for preset_modes.
C4_ModeListPrecedence ==
    /\ fresh = "hvac_modes" =>
          /\ config.hvac_mode_scripts # {} => hvacRead = config.hvac_mode_scripts
          /\ (config.hvac_mode_scripts = {} /\ BaseResolvable) =>
                 hvacRead = TheBase.hvac_modes
          /\ (config.hvac_mode_scripts = {} /\ ~BaseResolvable) => hvacRead = {}
    /\ fresh = "preset_modes" =>
          /\ config.preset_mode_scripts # {} =>
                 presetRead = Some(config.preset_mode_scripts)
          /\ (config.preset_mode_scripts = {} /\ BaseResolvable) =>
                 presetRead = TheBase.preset_modes
          /\ (config.preset_mode_scripts = {} /\ ~BaseResolvable) => presetRead = None

\* preset_modes read with a preset mapping and a base entity that lists
\* presets of its own: the mapping's keys came back
C4_Witness ==
    /\ fresh = "preset_modes"
    /\ config.preset_mode_scripts # {}
    /\ BaseResolvable
    /\ TheBase.preset_modes = Some({"eco"})
    /\ presetRead = Some(config.preset_mode_scripts)

\* hvac_modes read with no hvac mapping: the base entity's list came back
C4_WitnessDelegated ==
    /\ fresh = "hvac_modes"
    /\ config.hvac_mode_scripts = {}
    /\ BaseResolvable
    /\ hvacRead = {"heat", "cool"}

\* the decimal numeral of an integer below 100
Numeral(n) ==
    IF n \div 10 = 0 THEN DigitChars[n + 1]
    ELSE DigitChars[(n \div 10) + 1] \o DigitChars[(n % 10) + 1]

\* C5: after any sequence of updates the stored state is the string form of
\* the last result when that result rendered, and None when it was a
\* TemplateError or could not be converted; no update leaves an exception or
\* an earlier rendered value behind.
C5_StateFollowsLastResult ==
    lastResult # NoResult =>
        /\ errors = {}
        /\ lastResult.kind = "TemplateError" => _state = None
        /\ lastResult.kind = "unprintable" => _state = None
        /\ lastResult.kind = "str" => _state = Some(lastResult.s)
        /\ lastResult.kind = "int" => _state = Some(Numeral(lastResult.n))

\* the state was read after a failed render and is None
C5_Witness ==
    /\ lastResult = TemplateError
    /\ fresh = "state"
    /\ stateRead = None

\* the state was read after an integer rendered and is its numeral
C5_WitnessRendered ==
    /\ lastResult = IntResult(MaxInt)
    /\ fresh = "state"
    /\ stateRead # None

\* C6 as stated: with no base entity and no state template configured the
\* entity can be constructed, and its state is None from then on.
C6_Original ==
    (config.state = None /\ config.base_climate_entity_id = None /\ lifecycle # "new") =>
        /\ Constructed
        /\ state = None

====
